---- MODULE Spec2Model ----
(***************************************************************************)
(* cfg2env: conversion of configuration documents to .env lines.           *)
(*                                                                         *)
(* Strings are finite sequences of one-character strings, so that          *)
(* uppercasing, byte-wise comparison, concatenation and line splitting are *)
(* computed character by character as the Go code computes them.           *)
(***************************************************************************)
EXTENDS Integers, Sequences, FiniteSets, TLC

VARIABLES
    pc,         \* position of the current Convert call
    rdr,        \* the io.Reader argument: "nil", "ok" or "failing"
    wtr,        \* the io.Writer argument: "nil", "buffer" or "failing"
    input,      \* the entries the plugin reads, in input order
    env,        \* the map returned by plugin.Parse
    normalized, \* Convert's local map `normalized`
    keys,       \* Convert's local slice `keys`
    idx,        \* index of the next element of `keys` to write
    sink,       \* the bytes the writer has received in this call
    err,        \* the error Convert returns
    parseCalls, \* number of plugin.Parse invocations in this call
    calls,      \* number of Convert calls started so far
    history,    \* the sinks of the calls that returned nil, oldest first
    fpc,        \* position of the Flatten / Parse call
    fprefix,    \* Flatten's argument `prefix`
    fnode,      \* Flatten's argument `v`
    fenv,       \* Flatten's argument `env` (mutated in place)
    fpanic,     \* TRUE when the call ended in a run-time panic
    dunder,     \* the Converter's dunder count
    filter,     \* the Converter's field `filter`: NoFilter (nil) or its lists
    lastSet,    \* the arguments of the last SetFilterPatterns call
    kpc,        \* the Converter / matcher function that has just returned
    kpat,       \* its pattern argument
    kkey,       \* its key argument
    kres,       \* its result
    registry,   \* the package variable `registry`
    defaultPlugin, \* the package variable `defaultPlugin`
    registered, \* the plugins passed to Register so far, oldest first
    rpc,        \* "idle", or "got" when Get has just returned
    gformat,    \* Get's argument
    got,        \* Get's result: a plugin or an error
    ppc,        \* "idle", or the plugin whose Parse has just returned
    stream,     \* Parse's argument: the reader and what it delivers
    parsed      \* Parse's result: a mapping or an error

cvars == <<pc, rdr, wtr, input, env, normalized, keys, idx, sink, err,
           parseCalls, calls, history>>
fvars == <<fpc, fprefix, fnode, fenv, fpanic>>
kvars == <<dunder, filter, lastSet, kpc, kpat, kkey, kres>>
rvars == <<registry, defaultPlugin, registered, rpc, gformat, got>>
pvars == <<ppc, stream, parsed>>
vars == <<cvars, fvars, kvars, rvars, pvars>>

----------------------------------------------------------------------------
(* Bounds *)

MaxEntries == 2     \* most entries in one input
MaxCalls == 2       \* Convert calls made on one Converter
MaxNodes == 4       \* most nodes in one decoded document
MaxDunder == 3      \* largest dunder count given to processKey
MaxRegisters == 4   \* Register calls made on the registry
MaxPieces == 3      \* most pieces (tokens) in one JSON stream
MaxRows == 3        \* most rows returned by the sqlite query

----------------------------------------------------------------------------
(* Characters and strings *)

\* The characters that occur in keys, with their byte values (ASCII).
Alphabet == {" ", "*", "-", "/", "0", "1", "2", "3", "4", "5", "6", "7", "8",
             "9", "=", "?", "A", "B", "K", "[", "\\", "]", "^", "_", "a", "b",
             "k"}

Byte(c) ==
    CASE c = " " -> 32 [] c = "*" -> 42 [] c = "-" -> 45 [] c = "/" -> 47
      [] c = "?" -> 63 [] c = "[" -> 91 [] c = "\\" -> 92 [] c = "]" -> 93
      [] c = "^" -> 94
      [] c = "0" -> 48 [] c = "1" -> 49 [] c = "2" -> 50 [] c = "3" -> 51
      [] c = "4" -> 52 [] c = "5" -> 53 [] c = "6" -> 54 [] c = "7" -> 55
      [] c = "8" -> 56 [] c = "9" -> 57 [] c = "=" -> 61
      [] c = "A" -> 65 [] c = "B" -> 66 [] c = "K" -> 75 [] c = "_" -> 95
      [] c = "a" -> 97 [] c = "b" -> 98 [] c = "k" -> 107

Chr(n) == CHOOSE c \in Alphabet : Byte(c) = n

IsLower(c) == Byte(c) >= 97 /\ Byte(c) <= 122

\* unicode.ToUpper on one character.
ToUpperChar(c) == IF IsLower(c) THEN Chr(Byte(c) - 32) ELSE c

\* Uppercasing that leaves the string as it is.
ToUpperSkipped(s) == s

\* strings.ToUpper
ToUpper(s) == [i \in 1..Len(s) |-> ToUpperChar(s[i])]

\* Go's < on strings: byte-wise lexicographic, a proper prefix is smaller.
RECURSIVE StrLess(_, _)
StrLess(s, t) ==
    IF t = <<>> THEN FALSE
    ELSE IF s = <<>> THEN TRUE
    ELSE IF Byte(Head(s)) # Byte(Head(t)) THEN Byte(Head(s)) < Byte(Head(t))
    ELSE StrLess(Tail(s), Tail(t))

\* All orders in which a Go `range` may visit the set S.
Orders(S) ==
    {f \in [1..Cardinality(S) -> S] :
        \A i, j \in 1..Cardinality(S) : i # j => f[i] # f[j]}

----------------------------------------------------------------------------
(* The plugin (converter_test.go, mockPlugin) *)

\* Raw keys a plugin may return: case variants of one key, a key that is a
\* prefix of another, and the empty key.
RawKeys == {<<>>, <<"a">>, <<"A">>, <<"b">>, <<"a", "b">>}
Values == {<<>>, <<"v">>, <<"V", "=">>}
Entries == RawKeys \X Values
Inputs == UNION {[1..n -> Entries] : n \in 0..MaxEntries}

NoMap == <<>>

\* m with m[k] set to v (Go: m[k] = v).
MapSet(m, k, v) ==
    [x \in (DOMAIN m) \cup {k} |-> IF x = k THEN v ELSE m[x]]

\* parseFunc of the test plugin: env[parts[0]] = parts[1] for each line, in
\* input order.
RECURSIVE MockParse(_, _)
MockParse(in, m) ==
    IF in = <<>> THEN m
    ELSE MockParse(Tail(in), MapSet(m, Head(in)[1], Head(in)[2]))

----------------------------------------------------------------------------
(* Converter.Convert *)

\* The merge loop without the uppercasing of the key.
RECURSIVE MergeKeysRaw(_, _, _)
MergeKeysRaw(e, ord, m) ==
    IF ord = <<>> THEN m
    ELSE MergeKeysRaw(e, Tail(ord), MapSet(m, Head(ord), e[Head(ord)]))

\* The loop `for k, v := range env { normalized[ToUpper(k)] = v }`, visiting
\* the keys of env in the order ord.
RECURSIVE MergeKeys(_, _, _)
MergeKeys(e, ord, m) ==
    IF ord = <<>> THEN m
    ELSE MergeKeys(e, Tail(ord), MapSet(m, ToUpper(Head(ord)), e[Head(ord)]))

\* Insertion of k into the ascending sequence s.
RECURSIVE Insert(_, _)
Insert(k, s) ==
    IF s = <<>> THEN <<k>>
    ELSE IF StrLess(k, Head(s)) THEN <<k>> \o s
    ELSE <<Head(s)>> \o Insert(k, Tail(s))

\* The keys left in the order the map range produced them.
SortStringsSkipped(s) == s

\* sort.Strings
RECURSIVE SortStrings(_)
SortStrings(s) ==
    IF s = <<>> THEN <<>> ELSE Insert(Head(s), SortStrings(Tail(s)))

\* A line with the value wrapped in double quotes.
EnvLineQuoted(k, v) == k \o <<"=", "\"">> \o v \o <<"\"", "\n">>

\* The string handed to io.WriteString for key k.
EnvLine(k, v) == k \o <<"=">> \o v \o <<"\n">>

Call ==
    /\ pc = "idle"
    /\ calls = 0
    /\ \E r \in {"nil", "ok", "failing"}, w \in {"nil", "buffer", "failing"},
          in \in Inputs :
          /\ rdr' = r
          /\ wtr' = w
          /\ input' = in
    /\ pc' = "check"
    /\ calls' = 1
    /\ UNCHANGED <<env, normalized, keys, idx, sink, err, parseCalls, history>>
    /\ UNCHANGED <<fvars, kvars, rvars, pvars>>

\* The same Converter is called again with the same input and arguments of
\* the same kind (a fresh buffer as writer).
CallAgain ==
    /\ pc = "done"
    /\ calls < MaxCalls
    /\ pc' = "check"
    /\ calls' = calls + 1
    /\ env' = NoMap
    /\ normalized' = NoMap
    /\ keys' = <<>>
    /\ idx' = 1
    /\ sink' = <<>>
    /\ err' = "none"
    /\ parseCalls' = 0
    /\ UNCHANGED <<rdr, wtr, input, history>>
    /\ UNCHANGED <<fvars, kvars, rvars, pvars>>

\* The nil checks with the check of the writer left out.
CheckNilReaderOnly ==
    /\ pc = "check"
    /\ IF rdr = "nil"
         THEN err' = "input reader is nil" /\ pc' = "done"
         ELSE err' = err /\ pc' = "parse"
    /\ UNCHANGED <<rdr, wtr, input, env, normalized, keys, idx, sink,
                   parseCalls, calls, history>>
    /\ UNCHANGED <<fvars, kvars, rvars, pvars>>

CheckNil ==
    /\ pc = "check"
    /\ IF rdr = "nil"
         THEN err' = "input reader is nil" /\ pc' = "done"
       ELSE IF wtr = "nil"
         THEN err' = "output writer is nil" /\ pc' = "done"
       ELSE err' = err /\ pc' = "parse"
    /\ UNCHANGED <<rdr, wtr, input, env, normalized, keys, idx, sink,
                   parseCalls, calls, history>>
    /\ UNCHANGED <<fvars, kvars, rvars, pvars>>

\* Parse with the returned error dropped: Convert goes on with what the
\* plugin had read.
ParseErrorIgnored ==
    /\ pc = "parse"
    /\ parseCalls' = parseCalls + 1
    /\ env' = MockParse(input, NoMap)
    /\ pc' = "merge"
    /\ UNCHANGED <<rdr, wtr, input, normalized, keys, idx, sink, err, calls,
                   history>>
    /\ UNCHANGED <<fvars, kvars, rvars, pvars>>

Parse ==
    /\ pc = "parse"
    /\ parseCalls' = parseCalls + 1
    /\ IF rdr = "failing"
         THEN /\ err' = "parsing error"
              /\ pc' = "done"
              /\ env' = env
         ELSE /\ env' = MockParse(input, NoMap)
              /\ pc' = "merge"
              /\ err' = err
    /\ UNCHANGED <<rdr, wtr, input, normalized, keys, idx, sink, calls,
                   history>>
    /\ UNCHANGED <<fvars, kvars, rvars, pvars>>

Merge ==
    /\ pc = "merge"
    /\ \E ord \in Orders(DOMAIN env) :
          normalized' = MergeKeys(env, ord, NoMap)
    /\ pc' = "sort"
    /\ UNCHANGED <<rdr, wtr, input, env, keys, idx, sink, err, parseCalls,
                   calls, history>>
    /\ UNCHANGED <<fvars, kvars, rvars, pvars>>

Sort ==
    /\ pc = "sort"
    /\ \E ord \in Orders(DOMAIN normalized) : keys' = SortStrings(ord)
    /\ idx' = 1
    /\ pc' = "write"
    /\ UNCHANGED <<rdr, wtr, input, env, normalized, sink, err, parseCalls,
                   calls, history>>
    /\ UNCHANGED <<fvars, kvars, rvars, pvars>>

WriteLine ==
    /\ pc = "write"
    /\ idx <= Len(keys)
    /\ sink' = sink \o EnvLine(keys[idx], normalized[keys[idx]])
    /\ idx' = idx + 1
    /\ UNCHANGED <<pc, rdr, wtr, input, env, normalized, keys, err,
                   parseCalls, calls, history>>
    /\ UNCHANGED <<fvars, kvars, rvars, pvars>>

\* The writer returns an error after accepting n bytes of the line.
WriteFail ==
    /\ pc = "write"
    /\ idx <= Len(keys)
    /\ wtr = "failing"
    /\ \E n \in 0..(Len(EnvLine(keys[idx], normalized[keys[idx]])) - 1) :
          sink' = sink \o SubSeq(EnvLine(keys[idx], normalized[keys[idx]]), 1, n)
    /\ err' = "writing error"
    /\ pc' = "done"
    /\ UNCHANGED <<rdr, wtr, input, env, normalized, keys, idx, parseCalls,
                   calls, history>>
    /\ UNCHANGED <<fvars, kvars, rvars, pvars>>

Return ==
    /\ pc = "write"
    /\ idx > Len(keys)
    /\ pc' = "done"
    /\ history' = Append(history, sink)
    /\ UNCHANGED <<rdr, wtr, input, env, normalized, keys, idx, sink, err,
                   parseCalls, calls>>
    /\ UNCHANGED <<fvars, kvars, rvars, pvars>>

----------------------------------------------------------------------------
(* Raw values: what a decoder hands to Flatten *)

\* A raw value is a record tagged with its Go dynamic type:
\*   "smap"    map[string]interface{}        m: key -> raw value
\*   "imap"    map[interface{}]interface{}   m: typed key -> raw value
\*   "seq"     []interface{}                 e: sequence of raw values
\*   "string"  s: the characters       "int"  i: the integer
\*   "float64" ip, fp: the value ip + fp/10 (fp one decimal digit)
\*   "float64e" d, e: the float64 d * 10^e, one digit d and an exponent e
\*             that puts the value beyond the range of int64
\*   "bool"    b                       "nil"  the nil interface
\*   "other"   any other type (int64, uint64, time.Time, ...); s: what
\*             fmt's %v prints for it
NilNode == [t |-> "nil"]
StrNode(x) == [t |-> "string", s |-> x]
IntNode(n) == [t |-> "int", i |-> n]
FloatNode(a, b) == [t |-> "float64", ip |-> a, fp |-> b]
HugeFloatNode(a, b) == [t |-> "float64e", d |-> a, e |-> b]
BoolNode(x) == [t |-> "bool", b |-> x]
OtherNode(x) == [t |-> "other", s |-> x]
SeqNode(x) == [t |-> "seq", e |-> x]
SMapNode(f) == [t |-> "smap", m |-> f]
IMapNode(f) == [t |-> "imap", m |-> f]

\* A key of a map[interface{}]interface{}: its dynamic type and its text.
StringKey(x) == [kt |-> "string", ks |-> x]
IntKey(x) == [kt |-> "int", ks |-> x]

Digits == <<"0", "1", "2", "3", "4", "5", "6", "7", "8", "9">>

\* The decimal digits of n >= 0.
RECURSIVE NatDigits(_)
NatDigits(n) ==
    IF n < 10 THEN <<Digits[n + 1]>>
    ELSE NatDigits(n \div 10) \o <<Digits[(n % 10) + 1]>>

\* fmt.Sprintf("%d", n)
Itoa(n) == IF n < 0 THEN <<"-">> \o NatDigits(0 - n) ELSE NatDigits(n)

\* n zeros.
RECURSIVE Zeros(_)
Zeros(n) == IF n <= 0 THEN <<>> ELSE <<"0">> \o Zeros(n - 1)

\* fmt's %g of d * 10^e for e >= 6: the exponent form, d e+ee
FormatG(d, e) ==
    <<Digits[d + 1], "e", "+">> \o (IF e < 10 THEN <<"0">> ELSE <<>>) \o Itoa(e)

\* strconv.FormatFloat(d * 10^e, 'f', -1, 64): the digit and e zeros
FormatF(d, e) == <<Digits[d + 1]>> \o Zeros(e)

\* utils.ToString (the name ToString is taken by the TLC module)
\* float64(int(val)) == val is false for a value beyond int64, whatever
\* the out-of-range conversion yields.
UtilsToString(v) ==
    CASE v.t = "nil" -> <<>>
      [] v.t = "string" -> v.s
      [] v.t = "int" -> Itoa(v.i)
      [] v.t = "float64" ->
            IF v.fp = 0 THEN Itoa(v.ip)
            ELSE Itoa(v.ip) \o <<".">> \o <<Digits[v.fp + 1]>>
      [] v.t = "float64e" -> FormatG(v.d, v.e)
      [] v.t = "bool" ->
            IF v.b THEN <<"t", "r", "u", "e">> ELSE <<"f", "a", "l", "s", "e">>
      [] OTHER -> v.s

\* A run of Flatten: the assignments env[k] = v it makes, in order, and
\* whether it ended in a panic.
Emit(k, v) == [w |-> <<<<k, v>>>>, p |-> FALSE]
NoEmit == [w |-> <<>>, p |-> FALSE]
Panics == [w |-> <<>>, p |-> TRUE]

\* Run a, then run b unless a panicked.
Then(a, b) == IF a.p THEN a ELSE [w |-> a.w \o b.w, p |-> b.p]

\* newKey for the child under key k: k itself when prefix is "".
ChildKey(prefix, k) == IF prefix = <<>> THEN k ELSE prefix \o <<"_">> \o k

\* A numbering of the elements that starts at 1.
IndexKeyFromOne(prefix, i) == prefix \o <<"_">> \o Itoa(i + 1)

\* newKey for the element at index i.
IndexKey(prefix, i) == prefix \o <<"_">> \o Itoa(i)

\* case string, int, float64, bool, nil: env[ToUpper(prefix)] = ToString(val)
\* A value of any other type matches no case and the switch does nothing.
ScalarCase(prefix, v) ==
    IF v.t \in {"string", "int", "float64", "float64e", "bool", "nil"}
    THEN {Emit(ToUpper(prefix), UtilsToString(v))}
    ELSE {NoEmit}

\* if len(val) == 0 { env[ToUpper(prefix)] = ""; return }
EmptyMapCase(prefix) == {Emit(ToUpper(prefix), <<>>)}

\* utils.Flatten: the set of runs it can make on v under prefix, one for
\* every order in which the map ranges can visit their keys.
RECURSIVE FlattenRuns(_, _), ChainRuns(_)
FlattenRuns(prefix, v) ==
    CASE v.t = "smap" ->
            IF DOMAIN v.m = {} THEN EmptyMapCase(prefix)
            ELSE UNION {ChainRuns([i \in 1..Len(ord) |->
                                     [pre |-> ChildKey(prefix, ord[i]),
                                      node |-> v.m[ord[i]],
                                      ok |-> TRUE]])
                        : ord \in Orders(DOMAIN v.m)}
      [] v.t = "imap" ->
            IF DOMAIN v.m = {} THEN EmptyMapCase(prefix)
            ELSE UNION {ChainRuns([i \in 1..Len(ord) |->
                                     [pre |-> ChildKey(prefix, ord[i].ks),
                                      node |-> v.m[ord[i]],
                                      ok |-> ord[i].kt = "string"]])
                        : ord \in Orders(DOMAIN v.m)}
      [] v.t = "seq" ->
            ChainRuns([i \in 1..Len(v.e) |->
                         [pre |-> IndexKey(prefix, i - 1),
                          node |-> v.e[i],
                          ok |-> TRUE]])
      [] OTHER -> ScalarCase(prefix, v)

\* The loop body run for each item in turn; the type assertion k.(string)
\* panics on an item whose key is no string.
ChainRuns(items) ==
    IF items = <<>> THEN {NoEmit}
    ELSE IF ~Head(items).ok THEN {Panics}
    ELSE {Then(a, b) : a \in FlattenRuns(Head(items).pre, Head(items).node),
                       b \in ChainRuns(Tail(items))}

\* env after the assignments w.
RECURSIVE ApplyWrites(_, _)
ApplyWrites(m, w) ==
    IF w = <<>> THEN m
    ELSE ApplyWrites(MapSet(m, Head(w)[1], Head(w)[2]), Tail(w))

----------------------------------------------------------------------------
(* The JSON plugin's own flatten *)

\* strconv.FormatInt / FormatFloat / FormatBool, and %v for the rest
JsonToString(v) ==
    CASE v.t = "nil" -> <<>>
      [] v.t = "string" -> v.s
      [] v.t = "float64" ->
            IF v.fp = 0 THEN Itoa(v.ip)
            ELSE Itoa(v.ip) \o <<".">> \o <<Digits[v.fp + 1]>>
      [] v.t = "float64e" -> FormatF(v.d, v.e)
      [] v.t = "bool" ->
            IF v.b THEN <<"t", "r", "u", "e">> ELSE <<"f", "a", "l", "s", "e">>
      [] v.t = "int" -> Itoa(v.i)
      [] OTHER -> v.s

RECURSIVE JsonFlattenRuns(_, _), JsonChainRuns(_)
JsonFlattenRuns(prefix, v) ==
    CASE v.t = "smap" ->
            IF DOMAIN v.m = {} THEN EmptyMapCase(prefix)
            ELSE UNION {JsonChainRuns([i \in 1..Len(ord) |->
                            [pre |-> ToUpper(ChildKey(prefix, ord[i])),
                             node |-> v.m[ord[i]]]])
                        : ord \in Orders(DOMAIN v.m)}
      [] v.t = "seq" ->
            JsonChainRuns([i \in 1..Len(v.e) |->
                             [pre |-> ToUpper(IndexKey(prefix, i - 1)),
                              node |-> v.e[i]]])
      [] OTHER -> {Emit(ToUpper(prefix), JsonToString(v))}

JsonChainRuns(items) ==
    IF items = <<>> THEN {NoEmit}
    ELSE {Then(a, b) : a \in JsonFlattenRuns(Head(items).pre, Head(items).node),
                       b \in JsonChainRuns(Tail(items))}

----------------------------------------------------------------------------
(* The documents and calls explored *)

\* The timestamp 2025 as yaml.v3 decodes it (a time.Time), printed by %v.
Scalars ==
    {NilNode, StrNode(<<"x">>), StrNode(<<>>), IntNode(7), IntNode(0 - 12),
     FloatNode(1, 5), FloatNode(2, 0), BoolNode(TRUE), BoolNode(FALSE),
     OtherNode(<<"2", "0", "2", "5">>)}

\* The number 1e19 (10000000000000000000), which exceeds int64.
TenQuintillion == HugeFloatNode(1, 19)

EmptySMap == SMapNode(<<>>)
EmptyIMap == IMapNode(<<>>)
EmptySeq == SeqNode(<<>>)

\* The leaves of the nested documents.
InnerLeaves ==
    {StrNode(<<"x">>), IntNode(7), OtherNode(<<"2", "0", "2", "5">>),
     EmptySMap, EmptySeq}

\* Mapping keys: the empty key and two keys that differ in case only.
SKeys == {<<>>, <<"a">>, <<"A">>}
IKeys == {StringKey(<<"a">>), IntKey(<<"1">>)}

\* A fixed enumeration of the set S.
Enum(S) == CHOOSE q \in Orders(S) : TRUE

\* The trees of exactly n nodes, and the k-tuples of trees of n nodes in all.
RECURSIVE TreesOfSize(_), Forests(_, _)
TreesOfSize(n) ==
    IF n <= 1 THEN InnerLeaves
    ELSE
      LET seqs == UNION {{SeqNode(f) : f \in Forests(k, n - 1)} : k \in 1..(n - 1)}
          maps == UNION {{SMapNode([key \in S |->
                             f[CHOOSE i \in 1..Cardinality(S) : Enum(S)[i] = key]])
                          : f \in Forests(Cardinality(S), n - 1)}
                         : S \in (SUBSET SKeys) \ {{}}}
      IN seqs \cup maps

Forests(k, n) ==
    IF k = 0 THEN (IF n = 0 THEN {<<>>} ELSE {})
    ELSE UNION {{<<tr>> \o f : tr \in TreesOfSize(sz), f \in Forests(k - 1, n - sz)}
                : sz \in 1..(n - (k - 1))}

\* Mappings with typed keys, as yaml decodes a mapping that has a key which
\* is no string.
IMaps ==
    {EmptyIMap} \cup
    UNION {{IMapNode(f) : f \in [S -> {StrNode(<<"x">>), EmptySMap}]}
           : S \in (SUBSET IKeys) \ {{}}}

Nodes ==
    Scalars \cup IMaps \cup UNION {TreesOfSize(n) : n \in 1..MaxNodes}
        \cup {TenQuintillion, SMapNode(<<"a">> :> TenQuintillion)}

Prefixes == {<<>>, <<"A">>, <<"k">>}

\* What the JSON decoder produces: no int, no typed-key maps, no other types.
RECURSIVE IsJsonNode(_)
IsJsonNode(v) ==
    CASE v.t = "smap" -> \A k \in DOMAIN v.m : IsJsonNode(v.m[k])
      [] v.t = "seq" -> \A i \in 1..Len(v.e) : IsJsonNode(v.e[i])
      [] OTHER -> v.t \in {"string", "float64", "float64e", "bool", "nil"}

\* utils.Flatten(prefix, v, env) called directly.
FlattenCall ==
    /\ fpc = "ready"
    /\ \E r \in FlattenRuns(fprefix, fnode) :
          /\ fenv' = ApplyWrites(fenv, r.w)
          /\ fpanic' = r.p
    /\ fpc' = "flattened"
    /\ UNCHANGED <<fprefix, fnode>>
    /\ UNCHANGED <<cvars, kvars, rvars, pvars>>

\* yaml Plugin.Parse on a stream that decodes to fnode:
\*   env := make(map[string]string); if data != nil { Flatten("", data, env) }
YamlParse ==
    /\ fpc = "ready"
    /\ fprefix = <<>>
    /\ IF fnode = NilNode
         THEN fenv' = NoMap /\ fpanic' = FALSE
         ELSE \E r \in FlattenRuns(<<>>, fnode) :
                /\ fenv' = ApplyWrites(NoMap, r.w)
                /\ fpanic' = r.p
    /\ fpc' = "yaml"
    /\ UNCHANGED <<fprefix, fnode>>
    /\ UNCHANGED <<cvars, kvars, rvars, pvars>>

\* json Plugin.Parse on a stream that decodes to fnode.
JsonParse ==
    /\ fpc = "ready"
    /\ fprefix = <<>>
    /\ IsJsonNode(fnode)
    /\ IF fnode = NilNode
         THEN fenv' = NoMap /\ fpanic' = FALSE
         ELSE \E r \in JsonFlattenRuns(<<>>, fnode) :
                /\ fenv' = ApplyWrites(NoMap, r.w)
                /\ fpanic' = r.p
    /\ fpc' = "json"
    /\ UNCHANGED <<fprefix, fnode>>
    /\ UNCHANGED <<cvars, kvars, rvars, pvars>>

----------------------------------------------------------------------------
(* Key normalisation and glob matching *)

\* strings.TrimSpace
RECURSIVE TrimLeft(_), TrimRight(_)
TrimLeft(s) == IF s # <<>> /\ Head(s) = " " THEN TrimLeft(Tail(s)) ELSE s
TrimRight(s) ==
    IF s # <<>> /\ s[Len(s)] = " " THEN TrimRight(SubSeq(s, 1, Len(s) - 1))
    ELSE s
TrimSpace(s) == TrimRight(TrimLeft(s))

Underscores(n) == [i \in 1..n |-> "_"]

\* The scan of processKey: `run` underscores have been read since the last
\* other character; a run that ends is written back shortened by n.
RECURSIVE CompressRuns(_, _, _)
CompressRuns(s, n, run) ==
    LET kept == Underscores(IF run > n THEN run - n ELSE 0)
    IN IF s = <<>> THEN kept
       ELSE IF Head(s) = "_" THEN CompressRuns(Tail(s), n, run + 1)
       ELSE kept \o <<Head(s)>> \o CompressRuns(Tail(s), n, 0)

\* A processKey that uppercases only.
processKeyUpperOnly(key, n) == ToUpper(key)

\* Converter.processKey with the dunder count n: uppercase, then, for n > 0,
\* remove up to n underscores from every run of underscores.
processKey(key, n) ==
    IF n <= 0 THEN ToUpper(key) ELSE CompressRuns(ToUpper(key), n, 0)

\* filepath.Separator on the supported platforms (linux, darwin).
Separator == "/"

Contains(s, c) == \E i \in 1..Len(s) : s[i] = c

\* filepath.Match, scanChunk: the leading stars, the text up to the next
\* star outside brackets, and the rest of the pattern.
RECURSIVE StripStars(_), ChunkEnd(_, _, _)
StripStars(p) == IF p # <<>> /\ Head(p) = "*" THEN StripStars(Tail(p)) ELSE p
ChunkEnd(p, i, inrange) ==
    IF i > Len(p) THEN i
    ELSE CASE p[i] = "\\" -> ChunkEnd(p, IF i < Len(p) THEN i + 2 ELSE i + 1, inrange)
           [] p[i] = "[" -> ChunkEnd(p, i + 1, TRUE)
           [] p[i] = "]" -> ChunkEnd(p, i + 1, FALSE)
           [] p[i] = "*" -> IF inrange THEN ChunkEnd(p, i + 1, inrange) ELSE i
           [] OTHER -> ChunkEnd(p, i + 1, inrange)
scanChunk(pattern) ==
    LET p == StripStars(pattern)
        i == ChunkEnd(p, 1, FALSE)
    IN [star |-> pattern # <<>> /\ Head(pattern) = "*",
        chunk |-> SubSeq(p, 1, i - 1),
        rest |-> SubSeq(p, i, Len(p))]

\* filepath.Match, getEsc: one possibly escaped character of a class.
getEsc(chunk) ==
    IF chunk = <<>> \/ Head(chunk) \in {"-", "]"} THEN [err |-> TRUE]
    ELSE LET c == IF Head(chunk) = "\\" THEN Tail(chunk) ELSE chunk
         IN IF c = <<>> \/ Tail(c) = <<>> THEN [err |-> TRUE]
            ELSE [err |-> FALSE, r |-> Head(c), rest |-> Tail(c)]

\* filepath.Match, the ranges of a character class after "[" or "[^": r is
\* the character of the name, unread when the match has failed already.
RECURSIVE ClassScan(_, _, _, _, _)
ClassScan(chunk, r, failed, match, some) ==
    IF chunk # <<>> /\ Head(chunk) = "]" /\ some
    THEN [err |-> FALSE, match |-> match, rest |-> Tail(chunk)]
    ELSE LET lo == getEsc(chunk)
             hi == IF Head(lo.rest) = "-" THEN getEsc(Tail(lo.rest)) ELSE lo
         IN IF lo.err THEN [err |-> TRUE]
            ELSE IF hi.err THEN [err |-> TRUE]
            ELSE ClassScan(hi.rest, r, failed,
                           match \/ (~failed /\ Byte(lo.r) <= Byte(r)
                                             /\ Byte(r) <= Byte(hi.r)),
                           TRUE)

\* filepath.Match, matchChunk: the chunk against the start of s. After a
\* mismatch the chunk is still read to its end for its syntax.
RECURSIVE matchChunk(_, _, _)
matchChunk(chunk, s, wasFailed) ==
    IF chunk = <<>>
    THEN [err |-> FALSE, ok |-> ~wasFailed, rest |-> IF wasFailed THEN <<>> ELSE s]
    ELSE
      LET failed == wasFailed \/ s = <<>>
          next == IF failed THEN s ELSE Tail(s)
      IN CASE Head(chunk) = "[" ->
                LET c == Tail(chunk)
                    negated == c # <<>> /\ Head(c) = "^"
                    cl == ClassScan(IF negated THEN Tail(c) ELSE c,
                                    IF failed THEN "" ELSE Head(s),
                                    failed, FALSE, FALSE)
                IN IF cl.err THEN [err |-> TRUE, ok |-> FALSE, rest |-> <<>>]
                   ELSE matchChunk(cl.rest, next, failed \/ cl.match = negated)
           [] Head(chunk) = "?" ->
                matchChunk(Tail(chunk), next, failed \/ Head(s) = Separator)
           [] Head(chunk) = "\\" ->
                IF Tail(chunk) = <<>> THEN [err |-> TRUE, ok |-> FALSE, rest |-> <<>>]
                ELSE matchChunk(Tail(Tail(chunk)), next,
                                failed \/ Head(Tail(chunk)) # Head(s))
           [] OTHER ->
                matchChunk(Tail(chunk), next, failed \/ Head(chunk) # Head(s))

\* filepath.Match: chunk after chunk; after a star the chunk is tried at
\* every later position of the name up to the first separator, and the
\* first position where it matches is taken.
RECURSIVE filepathMatch(_, _), StarLoop(_, _, _)
filepathMatch(pattern, name) ==
    IF pattern = <<>> THEN name = <<>>
    ELSE
      LET sc == scanChunk(pattern)
          m == matchChunk(sc.chunk, name, FALSE)
      IN IF sc.star /\ sc.chunk = <<>> THEN ~Contains(name, Separator)
         ELSE IF m.ok /\ (m.rest = <<>> \/ sc.rest # <<>>)
              THEN filepathMatch(sc.rest, m.rest)
         ELSE IF m.err THEN FALSE
         ELSE IF sc.star THEN StarLoop(sc, name, 1)
         ELSE FALSE
StarLoop(sc, name, i) ==
    IF i > Len(name) \/ name[i] = Separator THEN FALSE
    ELSE
      LET m == matchChunk(sc.chunk, SubSeq(name, i + 1, Len(name)), FALSE)
      IN IF m.ok
         THEN IF sc.rest = <<>> /\ m.rest # <<>> THEN StarLoop(sc, name, i + 1)
              ELSE filepathMatch(sc.rest, m.rest)
         ELSE IF m.err THEN FALSE
         ELSE StarLoop(sc, name, i + 1)

\* GlobMatcher.Match: matched, _ := filepath.Match(pattern, key)
Match(pattern, key) == filepathMatch(pattern, key)

----------------------------------------------------------------------------
(* The patterns and keys explored, and the calls on them *)

Strs(A) == {<<c>> : c \in A}
Cat(S, T) == {x \o y : x \in S, y \in T}

\* Every pattern of up to three characters over the characters that
\* filepath.Match reads specially and two that it does not, and two longer
\* classes.
GlobAlphabet == {"A", "_", "*", "?", "[", "]", "\\"}
GlobPatterns ==
    {<<>>} \cup Strs(GlobAlphabet) \cup Cat(Strs(GlobAlphabet), Strs(GlobAlphabet))
    \cup Cat(Strs(GlobAlphabet), Cat(Strs(GlobAlphabet), Strs(GlobAlphabet)))
    \cup {<<"[", "^", "A", "]">>, <<"[", "A", "-", "B", "]">>,
          <<"A", "_", "_", "*">>}

\* Every key of up to two characters, and the keys of the documented
\* examples of dunder compression.
KeyAlphabet == {"A", "_", "[", "]", "\\", "/"}
GlobKeys ==
    {<<>>} \cup Strs(KeyAlphabet) \cup Cat(Strs(KeyAlphabet), Strs(KeyAlphabet))
    \cup {<<"A", "_", "B">>, <<"A", "_", "_", "B">>,
          <<"A", "_", "_", "_", "_", "B">>, <<"a", "_", "b">>,
          <<"a", "_", "_", "b", "_">>, <<"_", "_", "a", "_", "_", "_">>,
          <<"A", "_", "A">>, <<"A", "_", "_", "A">>, <<"[", "A", "]">>,
          <<"A", "/", "A">>, <<"A">> \o Underscores(MaxDunder + 1) \o <<"A">>}

\* The dunder counts: a negative one, 0 (disabled) and the positive ones.
Dunders == (0 - 1)..MaxDunder

\* c.filter == nil, and the state before any SetFilterPatterns call.
NoFilter == [nil |-> TRUE, include |-> <<>>, exclude |-> <<>>]
NoCall == [called |-> FALSE, include |-> <<>>, exclude |-> <<>>, dunder |-> 0,
           hadFilter |-> FALSE]

\* No plugin (a nil plugin.Plugin).
NoPlugin == [id |-> 0, name |-> "", exts |-> <<>>]

\* c.processKey(key)
ProcessKey ==
    /\ kpc = "ready"
    /\ kres' = processKey(kkey, dunder)
    /\ kpc' = "processKey"
    /\ UNCHANGED <<dunder, filter, lastSet, kpat, kkey>>
    /\ UNCHANGED <<cvars, fvars, rvars, pvars>>

\* GlobMatcher{}.Match(pattern, key)
MatchCall ==
    /\ kpc = "ready"
    /\ kres' = Match(kpat, kkey)
    /\ kpc' = "Match"
    /\ UNCHANGED <<dunder, filter, lastSet, kpat, kkey>>
    /\ UNCHANGED <<cvars, fvars, rvars, pvars>>

\* The Match call made for the user pattern kpat and the raw key kkey once
\* both are normalized: the pattern as normalizePatterns does it,
\* c.processKey(strings.ToUpper(strings.TrimSpace(p))), the key by processKey.
MatchNormalized ==
    /\ kpc = "ready"
    /\ kres' = Match(processKey(ToUpper(TrimSpace(kpat)), dunder),
                     processKey(kkey, dunder))
    /\ kpc' = "MatchNormalized"
    /\ UNCHANGED <<dunder, filter, lastSet, kpat, kkey>>
    /\ UNCHANGED <<cvars, fvars, rvars, pvars>>

InitConvert ==
    /\ pc = "idle"
    /\ rdr = "nil"
    /\ wtr = "nil"
    /\ input = <<>>
    /\ env = NoMap
    /\ normalized = NoMap
    /\ keys = <<>>
    /\ idx = 1
    /\ sink = <<>>
    /\ err = "none"
    /\ parseCalls = 0
    /\ calls = 0
    /\ history = <<>>

----------------------------------------------------------------------------
(* The pattern filter *)

\* shouldInclude without the exclude loop.
shouldIncludeNoExclude(f, key) ==
    Len(f.include) = 0 \/ \E i \in 1..Len(f.include) : Match(f.include[i], key)

\* shouldInclude without the include loop.
shouldIncludeNoInclude(f, key) ==
    ~\E i \in 1..Len(f.exclude) : Match(f.exclude[i], key)

\* filter.shouldInclude with the GlobMatcher: the include loop, then the
\* exclude loop.
shouldInclude(f, key) ==
    IF Len(f.include) > 0 /\ ~\E i \in 1..Len(f.include) : Match(f.include[i], key)
    THEN FALSE
    ELSE IF \E i \in 1..Len(f.exclude) : Match(f.exclude[i], key) THEN FALSE
    ELSE TRUE

\* normalizePatterns without the test that skips a blank pattern.
RECURSIVE normalizePatternsKeepBlank(_, _)
normalizePatternsKeepBlank(patterns, n) ==
    IF patterns = <<>> THEN <<>>
    ELSE <<processKey(ToUpper(TrimSpace(Head(patterns))), n)>>
            \o normalizePatternsKeepBlank(Tail(patterns), n)

\* Whether normalizePatterns returns the nil slice: only by the early return
\*   if len(patterns) == 0 { return nil }
\* Any other input returns the slice made by make([]string, 0, len(patterns)).
normalizePatternsNil(patterns) == Len(patterns) = 0

\* Converter.normalizePatterns under the dunder count n.
RECURSIVE normalizePatterns(_, _)
normalizePatterns(patterns, n) ==
    IF patterns = <<>> THEN <<>>
    ELSE IF TrimSpace(Head(patterns)) = <<>> THEN normalizePatterns(Tail(patterns), n)
    ELSE <<processKey(ToUpper(TrimSpace(Head(patterns))), n)>>
            \o normalizePatterns(Tail(patterns), n)

\* The user patterns: a blank one, one for a prefix, one for a suffix, and
\* one that dunder compression empties; the lists of at most two of them.
FilterPatterns == {<<" ">>, <<" ", "a", "_", "*">>, <<"*", "_", "b">>, <<"_">>}
PatternLists ==
    {<<>>} \cup Strs(FilterPatterns)
    \cup {x \in Cat(Strs(FilterPatterns), Strs(FilterPatterns)) :
             StrLess(x[1], x[2])}
FilterDunders == {0, 1}

\* Normalized keys handed to shouldInclude, and raw keys of a parse result.
FilterKeys == {<<"A", "_", "B">>, <<"A", "_", "A">>, <<"B", "_", "B">>,
               <<"A", "B">>, <<"B">>, <<>>}
FilterRawKeys == {<<"a", "_", "b">>, <<"A", "_", "_", "B">>, <<"a", "_", "a">>,
                  <<"b", "_", "b">>, <<"k">>}
FilterInputs ==
    {[k \in S |-> k] : S \in {T \in SUBSET FilterRawKeys : \A x, y, z \in T :
                                  x = y \/ y = z \/ x = z}}

\* c.SetDunder(n)
SetDunder(n) ==
    /\ kpc = "idle"
    /\ dunder' = n
    /\ UNCHANGED <<filter, lastSet, kpc, kpat, kkey, kres>>
    /\ UNCHANGED <<cvars, fvars, rvars, pvars>>

\* SetFilterPatterns that keeps the filter it finds when both lists are
\* empty after normalization.
SetFilterPatternsKeepOld(include, exclude) ==
    /\ kpc = "idle"
    /\ LET normalizedInclude == normalizePatterns(include, dunder)
           normalizedExclude == normalizePatterns(exclude, dunder)
       IN filter' = IF Len(normalizedInclude) = 0 /\ Len(normalizedExclude) = 0
                    THEN filter
                    ELSE [nil |-> FALSE, include |-> normalizedInclude,
                          exclude |-> normalizedExclude]
    /\ lastSet' = [called |-> TRUE, include |-> include, exclude |-> exclude,
                   dunder |-> dunder, hadFilter |-> ~filter.nil]
    /\ UNCHANGED <<dunder, kpc, kpat, kkey, kres>>
    /\ UNCHANGED <<cvars, fvars, rvars, pvars>>

\* c.SetFilterPatterns(include, exclude, GlobMatcher{})
SetFilterPatterns(include, exclude) ==
    /\ kpc = "idle"
    /\ LET normalizedInclude == normalizePatterns(include, dunder)
           normalizedExclude == normalizePatterns(exclude, dunder)
       IN filter' = IF Len(normalizedInclude) = 0 /\ Len(normalizedExclude) = 0
                    THEN NoFilter
                    ELSE [nil |-> FALSE, include |-> normalizedInclude,
                          exclude |-> normalizedExclude]
    /\ lastSet' = [called |-> TRUE, include |-> include, exclude |-> exclude,
                   dunder |-> dunder, hadFilter |-> ~filter.nil]
    /\ UNCHANGED <<dunder, kpc, kpat, kkey, kres>>
    /\ UNCHANGED <<cvars, fvars, rvars, pvars>>

\* c.filter.shouldInclude(key), on a Converter that has a filter.
ShouldInclude ==
    /\ kpc = "idle"
    /\ ~filter.nil
    /\ \E key \in FilterKeys :
          /\ kkey' = key
          /\ kres' = shouldInclude(filter, key)
    /\ kpc' = "shouldInclude"
    /\ UNCHANGED <<dunder, filter, lastSet, kpat>>
    /\ UNCHANGED <<cvars, fvars, rvars, pvars>>

\* The loop that normalizes the keys of the parse result e, visiting them in
\* the order ord: normalized[processKey(k)] = v.
RECURSIVE MergeDunder(_, _, _, _)
MergeDunder(e, ord, m, n) ==
    IF ord = <<>> THEN m
    ELSE MergeDunder(e, Tail(ord), MapSet(m, processKey(Head(ord), n), e[Head(ord)]), n)

RECURSIVE WriteLines(_, _)
WriteLines(ks, m) ==
    IF ks = <<>> THEN <<>>
    ELSE EnvLine(Head(ks), m[Head(ks)]) \o WriteLines(Tail(ks), m)

NoMatchComment == <<"#", " ", "N", "o", " ", "k", "e", "y", "s", " ", "m", "a", "t", "c", "h", "e", "d", " ", "t", "h", "e", " ", "s", "p", "e", "c", "i", "f", "i", "e", "d", " ", "f", "i", "l", "t", "e", "r", "s">> \o <<"\n">>

\* What Convert writes for the parse result e on a Converter with the
\* dunder count n and the filter f: the entries whose normalized key passes
\* the filter, sorted, or the comment line when a filter is set and no entry
\* is left.
FilteredOutput(e, ord, n, f) ==
    LET m == MergeDunder(e, ord, NoMap, n)
        kept == {k \in DOMAIN m : f.nil \/ shouldInclude(f, k)}
    IN IF ~f.nil /\ kept = {} THEN NoMatchComment
       ELSE WriteLines(SortStrings(Enum(kept)), m)

\* c.Convert(r, w) on a reader whose parse result is e.
ConvertFiltered ==
    /\ kpc = "idle"
    /\ \E e \in FilterInputs :
          \E ord \in Orders(DOMAIN e) :
             /\ kkey' = e
             /\ kres' = [err |-> "none", out |-> FilteredOutput(e, ord, dunder, filter)]
    /\ kpc' = "Convert"
    /\ UNCHANGED <<dunder, filter, lastSet, kpat>>
    /\ UNCHANGED <<cvars, fvars, rvars, pvars>>

\* The call returns to its caller.
CallReturns ==
    /\ kpc \in {"shouldInclude", "Convert"}
    /\ kpc' = "idle"
    /\ kkey' = <<>>
    /\ kres' = <<>>
    /\ UNCHANGED <<dunder, filter, lastSet, kpat>>
    /\ UNCHANGED <<cvars, fvars, rvars, pvars>>

----------------------------------------------------------------------------
(* The plugin registry *)

\* The built-in plugins, the test's second plugin named yaml, and a plugin
\* that takes over the extension yml.
YamlPlugin == [id |-> 1, name |-> "yaml", exts |-> <<"yml", "yaml">>]
JsonPlugin == [id |-> 2, name |-> "json", exts |-> <<"json">>]
SqlitePlugin == [id |-> 3, name |-> "sqlite", exts |-> <<"db", "sqlite", "sqlite3">>]
MockYamlPlugin == [id |-> 4, name |-> "yaml", exts |-> <<"yml", "yaml">>]
DemoPlugin == [id |-> 5, name |-> "demo", exts |-> <<"yml">>]
Plugins == {YamlPlugin, JsonPlugin, SqlitePlugin, MockYamlPlugin, DemoPlugin}

Formats == {"", "yaml", "yml", "json", "sqlite", "db", "sqlite3", "demo",
            "unsupported"}

\* BasePlugin.CanHandle
CanHandle(p, format) ==
    format = p.name \/ \E i \in 1..Len(p.exts) : p.exts[i] = format

\* for _, ext := range p.Extensions() { registry[ext] = p }
RECURSIVE SetExtensions(_, _, _)
SetExtensions(m, exts, p) ==
    IF exts = <<>> THEN m
    ELSE SetExtensions(MapSet(m, Head(exts), p), Tail(exts), p)

\* Registration that leaves the formats already taken to their plugins.
RECURSIVE SetExtensionsIfFree(_, _, _)
SetExtensionsIfFree(m, exts, p) ==
    IF exts = <<>> THEN m
    ELSE SetExtensionsIfFree(IF Head(exts) \in DOMAIN m THEN m
                             ELSE MapSet(m, Head(exts), p),
                             Tail(exts), p)

\* A default that follows the latest plugin that can handle yaml.
DefaultAfterLatest(def, p) == IF CanHandle(p, "yaml") THEN p ELSE def

\* registry and defaultPlugin after Register(p).
Registered(reg, p) == SetExtensions(MapSet(reg, p.name, p), p.exts, p)
DefaultAfter(def, p) ==
    IF def = NoPlugin /\ CanHandle(p, "yaml") THEN p ELSE def

RegisterKeepFirst(p) ==
    /\ rpc = "idle"
    /\ Len(registered) < MaxRegisters
    /\ registry' = SetExtensionsIfFree(registry, <<p.name>> \o p.exts, p)
    /\ defaultPlugin' = DefaultAfter(defaultPlugin, p)
    /\ registered' = Append(registered, p)
    /\ UNCHANGED <<rpc, gformat, got>>
    /\ UNCHANGED <<cvars, fvars, kvars, pvars>>

\* Register(p)
Register(p) ==
    /\ rpc = "idle"
    /\ Len(registered) < MaxRegisters
    /\ registry' = Registered(registry, p)
    /\ defaultPlugin' = DefaultAfter(defaultPlugin, p)
    /\ registered' = Append(registered, p)
    /\ UNCHANGED <<rpc, gformat, got>>
    /\ UNCHANGED <<cvars, fvars, kvars, pvars>>

\* init(): Register(yaml.New()); Register(json.New()); Register(sqlite.New())
PackageInit ==
    /\ rpc = "idle"
    /\ registered = <<>>
    /\ registry' = Registered(Registered(Registered(registry, YamlPlugin),
                                         JsonPlugin), SqlitePlugin)
    /\ defaultPlugin' = DefaultAfter(DefaultAfter(DefaultAfter(defaultPlugin,
                              YamlPlugin), JsonPlugin), SqlitePlugin)
    /\ registered' = <<YamlPlugin, JsonPlugin, SqlitePlugin>>
    /\ UNCHANGED <<rpc, gformat, got>>
    /\ UNCHANGED <<cvars, fvars, kvars, pvars>>

NoError == <<>>

\* Get(format)
Get(format) ==
    /\ rpc = "idle"
    /\ gformat' = format
    /\ got' = IF format = ""
              THEN IF defaultPlugin = NoPlugin
                   THEN [plugin |-> NoPlugin,
                         err |-> <<"no default plugin available">>]
                   ELSE [plugin |-> defaultPlugin, err |-> NoError]
              ELSE IF format \in DOMAIN registry
                   THEN [plugin |-> registry[format], err |-> NoError]
                   ELSE [plugin |-> NoPlugin,
                         err |-> <<"unsupported format: ", format>>]
    /\ rpc' = "got"
    /\ UNCHANGED <<registry, defaultPlugin, registered>>
    /\ UNCHANGED <<cvars, fvars, kvars, pvars>>

\* Get returns to its caller.
GetReturns ==
    /\ rpc = "got"
    /\ rpc' = "idle"
    /\ UNCHANGED <<registry, defaultPlugin, registered, gformat, got>>
    /\ UNCHANGED <<cvars, fvars, kvars, pvars>>

----------------------------------------------------------------------------
(* The built-in parsers on their input streams *)

\* A result of Plugin.Parse: the mapping and the error. A failing call
\* returns the nil map.
Parsed(e) == [env |-> e, err |-> "none"]
Failed(msg) == [env |-> NoMap, err |-> msg]

IsSpace(c) == c = " "
IsDigit(c) == c \in {"0", "1", "2", "3", "4", "5", "6", "7", "8", "9"}

\* encoding/json's scanner on the characters { } [ ] , : " a 1 x and the
\* space. A scanner state is the step function st and the stack of parse
\* states; a step returns the new state and the scan code op.
ScanTo(s, k, o) == [st |-> s, stack |-> k, op |-> o]
ScanError == [st |-> "error", stack |-> <<>>, op |-> "error"]
SetTop(stack, ps) == SubSeq(stack, 1, Len(stack) - 1) \o <<ps>>

\* popParseState, returning the scan code op
PopParseState(stack, op) ==
    LET rest == SubSeq(stack, 1, Len(stack) - 1)
    IN ScanTo(IF rest = <<>> THEN "endTop" ELSE "endValue", rest, op)

\* stateEndTop returns scanEnd for any byte: a byte that is no space is
\* complained about on the next call only.
stateEndTop(stack, c) == ScanTo("endTop", stack, "end")

stateEndValue(stack, c) ==
    IF stack = <<>> THEN stateEndTop(stack, c)
    ELSE IF IsSpace(c) THEN ScanTo("endValue", stack, "skip")
    ELSE LET ps == stack[Len(stack)]
         IN CASE ps = "objectKey" ->
                    IF c = ":"
                    THEN ScanTo("beginValue", SetTop(stack, "objectValue"), "objectKey")
                    ELSE ScanError
              [] ps = "objectValue" ->
                    IF c = ","
                    THEN ScanTo("beginString", SetTop(stack, "objectKey"), "objectValue")
                    ELSE IF c = "}" THEN PopParseState(stack, "endObject")
                    ELSE ScanError
              [] OTHER ->
                    IF c = "," THEN ScanTo("beginValue", stack, "arrayValue")
                    ELSE IF c = "]" THEN PopParseState(stack, "endArray")
                    ELSE ScanError

stateBeginValue(st, stack, c) ==
    IF IsSpace(c) THEN ScanTo(st, stack, "skip")
    ELSE IF c = "{" THEN ScanTo("beginStringOrEmpty", stack \o <<"objectKey">>, "beginObject")
    ELSE IF c = "[" THEN ScanTo("beginValueOrEmpty", stack \o <<"arrayValue">>, "beginArray")
    ELSE IF c = "\"" THEN ScanTo("inString", stack, "beginLiteral")
    ELSE IF c = "0" THEN ScanTo("0", stack, "beginLiteral")
    ELSE IF IsDigit(c) THEN ScanTo("1", stack, "beginLiteral")
    ELSE ScanError

stateBeginString(st, stack, c) ==
    IF IsSpace(c) THEN ScanTo(st, stack, "skip")
    ELSE IF c = "\"" THEN ScanTo("inString", stack, "beginLiteral")
    ELSE ScanError

\* s.step(s, c)
Step(st, stack, c) ==
    CASE st = "beginValue" -> stateBeginValue(st, stack, c)
      [] st = "beginValueOrEmpty" ->
            IF IsSpace(c) THEN ScanTo(st, stack, "skip")
            ELSE IF c = "]" THEN stateEndValue(stack, c)
            ELSE stateBeginValue(st, stack, c)
      [] st = "beginStringOrEmpty" ->
            IF IsSpace(c) THEN ScanTo(st, stack, "skip")
            ELSE IF c = "}" THEN stateEndValue(SetTop(stack, "objectValue"), c)
            ELSE stateBeginString(st, stack, c)
      [] st = "beginString" -> stateBeginString(st, stack, c)
      [] st = "inString" ->
            IF c = "\"" THEN ScanTo("endValue", stack, "continue")
            ELSE ScanTo("inString", stack, "continue")
      [] st = "1" ->
            IF IsDigit(c) THEN ScanTo("1", stack, "continue")
            ELSE stateEndValue(stack, c)
      [] st = "0" -> stateEndValue(stack, c)
      [] st = "endValue" -> stateEndValue(stack, c)
      [] OTHER -> ScanError

NonSpace(s) == \E i \in 1..Len(s) : ~IsSpace(s[i])

\* Decoder.readValue from byte i on: the number of bytes of the first value
\* of the stream, or the error. The value ends at its closing bracket, or
\* one byte late for a literal; the bytes after it are not scanned.
RECURSIVE readValue(_, _, _, _)
readValue(s, i, st, stack) ==
    IF i > Len(s)
    THEN IF Step(st, stack, " ").op = "end" THEN [err |-> "none", n |-> Len(s)]
         ELSE IF NonSpace(s) THEN [err |-> "unexpected EOF", n |-> 0]
         ELSE [err |-> "EOF", n |-> 0]
    ELSE LET r == Step(st, stack, s[i])
         IN CASE r.op = "end" -> [err |-> "none", n |-> i - 1]
              [] r.op \in {"endObject", "endArray"} ->
                    IF stateEndValue(r.stack, " ").op = "end"
                    THEN [err |-> "none", n |-> i]
                    ELSE readValue(s, i + 1, r.st, r.stack)
              [] r.op = "error" -> [err |-> "invalid character", n |-> 0]
              [] OTHER -> readValue(s, i + 1, r.st, r.stack)

\* The first position from i on that holds no space (the scanned value has
\* one).
RECURSIVE SkipSpaces(_, _)
SkipSpaces(s, i) == IF i <= Len(s) /\ IsSpace(s[i]) THEN SkipSpaces(s, i + 1) ELSE i

\* The first position from i on that holds the character c.
RECURSIVE Find(_, _, _)
Find(s, i, c) == IF i > Len(s) \/ s[i] = c THEN i ELSE Find(s, i + 1, c)

\* The first position from i on that holds no digit.
RECURSIVE DigitsEnd(_, _)
DigitsEnd(s, i) == IF i <= Len(s) /\ IsDigit(s[i]) THEN DigitsEnd(s, i + 1) ELSE i

\* The number a string of digits denotes.
RECURSIVE Atoi(_)
Atoi(d) ==
    IF d = <<>> THEN 0
    ELSE 10 * Atoi(SubSeq(d, 1, Len(d) - 1))
            + (CHOOSE n \in 0..9 : Digits[n + 1] = d[Len(d)])

\* Decoder.Decode's unmarshal into an interface{}: the tree of the value
\* that starts at byte i of a scanned (valid) text, and the position after
\* it. A number becomes a float64, an object a map[string]interface{} in
\* which a repeated key keeps its last value.
RECURSIVE valueInterface(_, _), arrayInterface(_, _, _), objectInterface(_, _, _)
valueInterface(s, i) ==
    LET j == SkipSpaces(s, i)
    IN CASE s[j] = "{" -> objectInterface(s, j + 1, NoMap)
         [] s[j] = "[" -> arrayInterface(s, j + 1, <<>>)
         [] s[j] = "\"" ->
               LET q == Find(s, j + 1, "\"")
               IN [node |-> StrNode(SubSeq(s, j + 1, q - 1)), next |-> q + 1]
         [] OTHER ->
               LET q == DigitsEnd(s, j)
               IN [node |-> FloatNode(Atoi(SubSeq(s, j, q - 1)), 0), next |-> q]

arrayInterface(s, i, acc) ==
    LET j == SkipSpaces(s, i)
    IN IF s[j] = "]" THEN [node |-> SeqNode(acc), next |-> j + 1]
       ELSE IF s[j] = "," THEN arrayInterface(s, j + 1, acc)
       ELSE LET r == valueInterface(s, j)
            IN arrayInterface(s, r.next, Append(acc, r.node))

objectInterface(s, i, acc) ==
    LET j == SkipSpaces(s, i)
    IN IF s[j] = "}" THEN [node |-> SMapNode(acc), next |-> j + 1]
       ELSE IF s[j] = "," THEN objectInterface(s, j + 1, acc)
       ELSE LET q == Find(s, j + 1, "\"")
                r == valueInterface(s, Find(s, q + 1, ":") + 1)
            IN objectInterface(s, r.next, MapSet(acc, SubSeq(s, j + 1, q - 1), r.node))

\* decoder.Decode(&data) on a reader that delivers the bytes s.
Decode(s) ==
    LET v == readValue(s, 1, "beginValue", <<>>)
    IN IF v.err # "none" THEN [err |-> v.err, data |-> NilNode]
       ELSE [err |-> "none", data |-> valueInterface(SubSeq(s, 1, v.n), 1).node]

\* The readers given to Parse: the nil reader, or a reader of some bytes.
\* The bytes of a database file are not modelled: db tells whether they
\* form a database, rows what the query returns from it.
NilReader == [nil |-> TRUE, bytes |-> <<>>, db |-> FALSE, rows |-> <<>>]
Reader(s) == [nil |-> FALSE, bytes |-> s, db |-> FALSE, rows |-> <<>>]

\* The results json Plugin.Parse can return on the reader r, one for every
\* order the map ranges of flatten can take.
JsonPluginParse(r) ==
    IF r.nil THEN {Parsed(NoMap)}
    ELSE LET d == Decode(r.bytes)
         IN IF d.err = "EOF" THEN {Parsed(NoMap)}
            ELSE IF d.err # "none" THEN {Failed(d.err)}
            ELSE {Parsed(ApplyWrites(NoMap, run.w))
                    : run \in JsonFlattenRuns(<<>>, d.data)}

\* The rows of the config table: a key and a value, which may be NULL.
Null == [null |-> TRUE, s |-> <<>>]
Text(x) == [null |-> FALSE, s |-> x]
Row(k, v) == [key |-> k, value |-> v]

\* sqlite Plugin.Parse, the loop over rows.Next() with env so far: Scan
\* into a string fails on a NULL.
RECURSIVE ScanRowsKeepFirst(_, _)
ScanRowsKeepFirst(rows, e) ==
    IF rows = <<>> THEN Parsed(e)
    ELSE IF Head(rows).value = Null THEN Failed("Scan")
    ELSE ScanRowsKeepFirst(Tail(rows),
            IF ToUpper(Head(rows).key) \in DOMAIN e THEN e
            ELSE MapSet(e, ToUpper(Head(rows).key), Head(rows).value.s))

RECURSIVE ScanRows(_, _)
ScanRows(rows, e) ==
    IF rows = <<>> THEN Parsed(e)
    ELSE IF Head(rows).value = Null THEN Failed("Scan")
    ELSE ScanRows(Tail(rows), MapSet(e, ToUpper(Head(rows).key), Head(rows).value.s))

\* A reader of a database whose query returns rows.
Database(rows) == [nil |-> FALSE, bytes |-> <<"x">>, db |-> TRUE, rows |-> rows]

\* sqlite Plugin.Parse
SqlitePluginParse(r) ==
    IF r.nil THEN Parsed(NoMap)
    ELSE IF Len(r.bytes) = 0 THEN Parsed(NoMap)
    ELSE IF ~r.db THEN Failed("Query")
    ELSE ScanRows(r.rows, NoMap)

\* The streams explored: up to MaxPieces pieces, each a complete object or
\* a single token.
JsonPieces ==
    {<<"{", "\"", "a", "\"", ":", "1", "}">>, <<"\"", "a", "\"">>,
     <<"{">>, <<"}">>, <<"[">>, <<"]">>, <<"1">>, <<",">>, <<":">>, <<" ">>,
     <<"x">>}

RECURSIVE StreamsOf(_)
StreamsOf(n) == IF n = 0 THEN {<<>>} ELSE Cat(JsonPieces, StreamsOf(n - 1))

JsonStreams == UNION {StreamsOf(n) : n \in 0..MaxPieces}

\* The rows explored: three keys, two of them equal after uppercasing, and
\* three values.
Rows == {Row(k, v) : k \in {<<"a">>, <<"A">>, <<"b">>},
                     v \in {Text(<<"1">>), Text(<<"2">>), Null}}

RECURSIVE RowsOf(_)
RowsOf(n) == IF n = 0 THEN {<<>>} ELSE {<<r>> \o t : r \in Rows, t \in RowsOf(n - 1)}

RowLists == UNION {RowsOf(n) : n \in 0..MaxRows}

\* p.Parse(r) on the json plugin
JsonParseStream ==
    /\ ppc = "idle"
    /\ \E r \in {NilReader} \cup {Reader(s) : s \in JsonStreams} :
          /\ stream' = r
          /\ parsed' \in JsonPluginParse(r)
    /\ ppc' = "json"
    /\ UNCHANGED <<cvars, fvars, kvars, rvars>>

\* p.Parse(r) on the sqlite plugin: on the nil reader, on a reader of no
\* bytes, of bytes that are no database, and of a database.
SqliteParse ==
    /\ ppc = "idle"
    /\ \E r \in {NilReader, Reader(<<>>), Reader(<<"x">>)}
                  \cup {Database(q) : q \in RowLists} :
          /\ stream' = r
          /\ parsed' = SqlitePluginParse(r)
    /\ ppc' = "sqlite"
    /\ UNCHANGED <<cvars, fvars, kvars, rvars>>

\* Parse returns to its caller.
ParseReturns ==
    /\ ppc \in {"json", "sqlite"}
    /\ ppc' = "idle"
    /\ stream' = NilReader
    /\ parsed' = Parsed(NoMap)
    /\ UNCHANGED <<cvars, fvars, kvars, rvars>>

\* No Parse call in progress.
IdleParse ==
    /\ ppc = "idle"
    /\ stream = NilReader
    /\ parsed = Parsed(NoMap)

\* A Converter that has not been configured, with no call on it.
IdleConfig ==
    /\ dunder = 0
    /\ filter = NoFilter
    /\ lastSet = NoCall
    /\ kpc = "idle"
    /\ kpat = <<>>
    /\ kkey = <<>>
    /\ kres = <<>>

\* The package variables of the registry as declared, before any Register.
IdleRegistry ==
    /\ registry = NoMap
    /\ defaultPlugin = NoPlugin
    /\ registered = <<>>
    /\ rpc = "idle"
    /\ gformat = ""
    /\ got = [plugin |-> NoPlugin, err |-> NoError]

IdleFlatten ==
    /\ fpc = "idle"
    /\ fprefix = <<>>
    /\ fnode = NilNode
    /\ fenv = NoMap
    /\ fpanic = FALSE

InitFlatten ==
    /\ InitConvert
    /\ IdleParse
    /\ IdleConfig
    /\ IdleRegistry
    /\ fpc = "ready"
    /\ fprefix \in Prefixes
    /\ fnode \in Nodes
    /\ fenv = NoMap
    /\ fpanic = FALSE

NextFlatten ==
    \/ FlattenCall
    \/ YamlParse
    \/ JsonParse

SpecFlatten == InitFlatten /\ [][NextFlatten]_vars

Init ==
    /\ InitConvert
    /\ IdleParse
    /\ IdleConfig
    /\ IdleRegistry
    /\ fpc = "idle"
    /\ fprefix = <<>>
    /\ fnode = NilNode
    /\ fenv = NoMap
    /\ fpanic = FALSE

Next ==
    \/ Call
    \/ CallAgain
    \/ CheckNil
    \/ Parse
    \/ Merge
    \/ Sort
    \/ WriteLine
    \/ WriteFail
    \/ Return

Spec == Init /\ [][Next]_vars

\* processKey and Match applied to every key, pattern and dunder count.
InitGlob ==
    /\ InitConvert
    /\ IdleParse
    /\ IdleFlatten
    /\ IdleRegistry
    /\ dunder \in Dunders
    /\ filter = NoFilter
    /\ lastSet = NoCall
    /\ kpc = "ready"
    /\ kpat \in GlobPatterns
    /\ kkey \in GlobKeys
    /\ kres = <<>>

NextGlob ==
    \/ ProcessKey
    \/ MatchCall
    \/ MatchNormalized

SpecGlob == InitGlob /\ [][NextGlob]_vars

\* A Converter being configured and used.
InitFilter ==
    /\ InitConvert
    /\ IdleParse
    /\ IdleFlatten
    /\ IdleRegistry
    /\ IdleConfig

NextFilter ==
    \/ \E n \in FilterDunders : SetDunder(n)
    \/ \E include, exclude \in PatternLists : SetFilterPatterns(include, exclude)
    \/ ShouldInclude
    \/ ConvertFiltered
    \/ CallReturns

SpecFilter == InitFilter /\ [][NextFilter]_vars

\* The registry, from its declaration on.
InitRegistry ==
    /\ InitConvert
    /\ IdleParse
    /\ IdleFlatten
    /\ IdleConfig
    /\ IdleRegistry

NextRegistry ==
    \/ PackageInit
    \/ \E p \in Plugins : Register(p)
    \/ \E format \in Formats : Get(format)
    \/ GetReturns

SpecRegistry == InitRegistry /\ [][NextRegistry]_vars

\* The parsers called on their own.
InitParse ==
    /\ InitConvert
    /\ IdleParse
    /\ IdleFlatten
    /\ IdleConfig
    /\ IdleRegistry

NextParse ==
    \/ JsonParseStream
    \/ SqliteParse
    \/ ParseReturns

SpecParse == InitParse /\ [][NextParse]_vars

----------------------------------------------------------------------------
(* Reading the sink back as lines *)

\* The lines of s that are terminated by a newline, without the newline.
RECURSIVE CompleteLines(_, _)
CompleteLines(s, cur) ==
    IF s = <<>> THEN <<>>
    ELSE IF Head(s) = "\n" THEN <<cur>> \o CompleteLines(Tail(s), <<>>)
    ELSE CompleteLines(Tail(s), Append(cur, Head(s)))

\* The lines joined again, each followed by a newline.
RECURSIVE JoinLines(_)
JoinLines(ls) ==
    IF ls = <<>> THEN <<>>
    ELSE Head(ls) \o <<"\n">> \o JoinLines(Tail(ls))

\* The part of a line before its first "=".
RECURSIVE LineKey(_)
LineKey(l) ==
    IF l = <<>> \/ Head(l) = "=" THEN <<>>
    ELSE <<Head(l)>> \o LineKey(Tail(l))

\* The part of a line after its first "=".
RECURSIVE LineValue(_)
LineValue(l) ==
    IF l = <<>> THEN <<>>
    ELSE IF Head(l) = "=" THEN Tail(l)
    ELSE LineValue(Tail(l))

OutLines == CompleteLines(sink, <<>>)

HasNoLower(s) == \A i \in 1..Len(s) : ~IsLower(s[i])

Succeeded == pc = "done" /\ err = "none"

\* Two keys of the parse result are equal after uppercasing.
Collides == \E k1, k2 \in DOMAIN env : k1 # k2 /\ ToUpper(k1) = ToUpper(k2)

NormalizedKeys == {ToUpper(k) : k \in DOMAIN env}

\* The values the parse result holds for the raw keys that normalize to nk.
ValuesFor(nk) == {env[k] : k \in {x \in DOMAIN env : ToUpper(x) = nk}}

----------------------------------------------------------------------------
(* Claims about Convert *)

\* C1: every key in the output written by Convert is uppercase, and the
\* output lines are in strict ascending order of key.
C1_UpperSorted ==
    /\ \A i \in 1..Len(OutLines) : HasNoLower(LineKey(OutLines[i]))
    /\ \A i \in 1..(Len(OutLines) - 1) :
          StrLess(LineKey(OutLines[i]), LineKey(OutLines[i + 1]))

C1_Witness ==
    /\ Succeeded
    /\ Len(OutLines) >= 2
    /\ \E k \in DOMAIN env : ~HasNoLower(k)
    /\ StrLess(input[2][1], input[1][1])

C3_LastInInputWins ==
    Succeeded =>
        \A i \in 1..Len(input) :
            (\A j \in (i + 1)..Len(input) :
                ToUpper(input[j][1]) # ToUpper(input[i][1]))
            => \E n \in 1..Len(OutLines) :
                  OutLines[n] = ToUpper(input[i][1]) \o <<"=">> \o input[i][2]

\* C4: for a fixed parse result, any two Convert calls write byte-identical
\* output, also when raw keys collide.
C4_Repeatable ==
    \A i, j \in 1..Len(history) : history[i] = history[j]

\* C5: if a write fails, the sink has received none of the output: it holds
\* all lines of the environment mapping or no bytes at all.
C5_AllOrNothing ==
    /\ err = "writing error" => sink = <<>>
    /\ pc = "done" =>
          \/ sink = <<>>
          \/ /\ err = "none"
             /\ Len(OutLines) = Cardinality(NormalizedKeys)

\* C6: nothing is written before Parse has returned successfully; when Parse
\* returns an error, Convert returns a parsing error and the sink receives
\* zero bytes.
C6_ParseBeforeWrite ==
    /\ sink # <<>> => (pc \in {"write", "done"} /\ parseCalls = 1 /\ rdr = "ok")
    /\ err = "parsing error" => sink = <<>>
    /\ (pc = "done" /\ parseCalls = 1 /\ rdr = "failing") =>
          (err = "parsing error" /\ sink = <<>>)
    /\ (pc \notin {"idle", "check", "parse", "done"}) => rdr = "ok"

C6_Witness ==
    /\ pc = "done"
    /\ err = "parsing error"
    /\ parseCalls = 1
    /\ Len(input) > 0
    /\ wtr = "buffer"

\* C7: Convert called with a nil reader or a nil writer returns an error
\* without invoking Parse and without writing anything.
C7_NilArguments ==
    ((rdr = "nil" \/ wtr = "nil") /\ pc \notin {"idle", "check"}) =>
        /\ pc = "done"
        /\ err = (IF rdr = "nil" THEN "input reader is nil"
                   ELSE "output writer is nil")
        /\ parseCalls = 0
        /\ sink = <<>>

C7_Witness ==
    /\ pc = "done"
    /\ rdr = "ok"
    /\ wtr = "nil"
    /\ err = "output writer is nil"
    /\ Len(input) > 0

\* The normalized keys in ascending order.
AscendingKeys ==
    CHOOSE q \in Orders(NormalizedKeys) :
        \A i \in 1..(Len(q) - 1) : StrLess(q[i], q[i + 1])

\* C8: on success the output is exactly the concatenation, over the
\* normalized keys in ascending order, of key "=" value "\n" with the value
\* unchanged; there are as many lines as distinct normalized keys, and an
\* empty parse result gives empty output and no error.
C8_ExactOutput ==
    /\ Succeeded =>
          /\ Len(OutLines) = Cardinality(NormalizedKeys)
          /\ JoinLines(OutLines) = sink
          /\ \A i \in 1..Len(OutLines) :
                \E v \in ValuesFor(AscendingKeys[i]) :
                    OutLines[i] = AscendingKeys[i] \o <<"=">> \o v
    /\ (pc = "done" /\ rdr = "ok" /\ wtr # "nil" /\ DOMAIN env = {}) =>
          (err = "none" /\ sink = <<>>)

C8_Witness ==
    /\ Succeeded
    /\ Len(OutLines) = 2
    /\ \E i \in 1..2 : LineValue(OutLines[i]) = <<"V", "=">>

----------------------------------------------------------------------------
(* Claims about Flatten *)

Returned == fpc \in {"flattened", "yaml", "json"}

\* C9: flattening an empty mapping nested under key A yields the entry
\* A -> "", while flattening an empty mapping at the root (prefix "") adds
\* no entry at all, so that the document {} converts to no output line.
C9_EmptyMapping ==
    /\ (Returned /\ fprefix = <<>> /\ fnode = SMapNode(<<"A">> :> EmptySMap))
          => fenv = (<<"A">> :> <<>>)
    /\ (fpc = "flattened" /\ fprefix = <<"A">> /\ fnode = EmptySMap)
          => fenv = (<<"A">> :> <<>>)
    /\ (Returned /\ fprefix = <<>> /\ fnode = EmptySMap) => fenv = NoMap

\* C10: Flatten called with prefix K on a scalar leaf of any type (string,
\* integer, float, boolean, null, or another decoder type) adds exactly the
\* entry uppercase(K) -> Stringify(leaf); no leaf is dropped.
C10_ScalarLeaf ==
    (fpc = "flattened" /\ fnode \in Scalars)
        => fenv = (ToUpper(fprefix) :> UtilsToString(fnode))

----------------------------------------------------------------------------
(* Claims about sequences *)

\* The writes made by flattening the elements e[i], e[i+1], ... in turn, the
\* element at index j (counted from 0) under the prefix P_j.
RECURSIVE ElementWrites(_, _, _)
ElementWrites(P, e, i) ==
    IF i > Len(e) THEN {<<>>}
    ELSE {a.w \o b : a \in FlattenRuns(P \o <<"_">> \o Itoa(i - 1), e[i]),
                     b \in ElementWrites(P, e, i + 1)}

XAndSeven == SeqNode(<<StrNode(<<"x">>), IntNode(7)>>)

\* C11: flattening a sequence of length n under prefix P flattens element i
\* under prefix P_i for every i in 0..n-1, in index order, and adds no entry
\* for the sequence itself: {"A": ["x", 7]} yields exactly A_0 -> x and
\* A_1 -> 7, and an empty sequence yields no entry at all.
C11_SequenceIndexing ==
    /\ (fpc = "flattened" /\ fnode.t = "seq")
          => /\ ~fpanic
             /\ \E w \in ElementWrites(fprefix, fnode.e, 1) :
                    fenv = ApplyWrites(NoMap, w)
    /\ (fpc \in {"flattened", "yaml"} /\ fprefix = <<>>
            /\ fnode = SMapNode(<<"A">> :> XAndSeven))
          => fenv = (<<"A", "_", "0">> :> <<"x">> @@ <<"A", "_", "1">> :> <<"7">>)
    /\ (fpc = "flattened" /\ fnode = EmptySeq) => fenv = NoMap
    /\ (fpc \in {"flattened", "yaml"} /\ fprefix = <<>>
            /\ fnode = SMapNode(<<"A">> :> EmptySeq))
          => fenv = NoMap

\* A two-element sequence has been flattened under the prefix A.
C11_Witness ==
    /\ fpc = "flattened"
    /\ fprefix = <<"A">>
    /\ fnode = XAndSeven
    /\ fenv = (<<"A", "_", "0">> :> <<"x">> @@ <<"A", "_", "1">> :> <<"7">>)

----------------------------------------------------------------------------
(* Claims about dunder compression *)

\* The characters of s other than underscores, in order.
NonUnderscores(s) == SelectSeq(s, LAMBDA c : c # "_")

\* The lengths of the runs of underscores of s: before each other
\* character, and at the end (0 where there is no underscore).
RECURSIVE GapsFrom(_, _)
GapsFrom(s, run) ==
    IF s = <<>> THEN <<run>>
    ELSE IF Head(s) = "_" THEN GapsFrom(Tail(s), run + 1)
    ELSE <<run>> \o GapsFrom(Tail(s), 0)
Gaps(s) == GapsFrom(s, 0)

UpperOf(s) == [i \in 1..Len(s) |-> ToUpperChar(s[i])]

\* C12: for every dunder count n >= 1 and every key, processKey uppercases
\* the key and replaces each maximal run of L underscores by max(0, L - n)
\* underscores, leaving the other characters and their order unchanged; with
\* n = 1, A_B, A__B, A____B become AB, A_B, A___B, and with n = 3 they
\* become AB, AB, A_B.
C12_DunderRuns ==
    (kpc = "processKey" /\ dunder >= 1) =>
        /\ NonUnderscores(kres) = UpperOf(NonUnderscores(kkey))
        /\ Gaps(kres) = [i \in DOMAIN Gaps(kkey) |->
                            IF Gaps(kkey)[i] > dunder
                            THEN Gaps(kkey)[i] - dunder ELSE 0]
        /\ (dunder = 1 /\ kkey = <<"A", "_", "B">>) => kres = <<"A", "B">>
        /\ (dunder = 1 /\ kkey = <<"A", "_", "_", "B">>)
              => kres = <<"A", "_", "B">>
        /\ (dunder = 1 /\ kkey = <<"A", "_", "_", "_", "_", "B">>)
              => kres = <<"A", "_", "_", "_", "B">>
        /\ (dunder = 3 /\ kkey = <<"A", "_", "B">>) => kres = <<"A", "B">>
        /\ (dunder = 3 /\ kkey = <<"A", "_", "_", "B">>) => kres = <<"A", "B">>
        /\ (dunder = 3 /\ kkey = <<"A", "_", "_", "_", "_", "B">>)
              => kres = <<"A", "_", "B">>

\* A lowercase key with a run shorter and a run longer than the count has
\* been compressed.
C12_Witness ==
    /\ kpc = "processKey"
    /\ dunder = 2
    /\ kkey = <<"_", "_", "a", "_", "_", "_">>
    /\ kres = <<"A", "_">>

\* C13: processKey applied twice with the same count n gives what one
\* application gives, for every key, exactly when n <= 0 (where it is plain
\* uppercasing); for n > 0 the second application shortens the runs again
\* and differs from the first for every key with a run longer than n.
C13_TwiceIsOnceOnlyWithoutDunder ==
    kpc = "processKey" =>
        /\ dunder <= 0 => /\ kres = UpperOf(kkey)
                          /\ processKey(kres, dunder) = kres
        /\ (dunder > 0 /\ \E i \in DOMAIN Gaps(kkey) : Gaps(kkey)[i] > dunder)
              => processKey(kres, dunder) # kres

\* A run of four underscores has been compressed with the count 3 to one
\* underscore, which a second application removes.
C13_Witness ==
    /\ kpc = "processKey"
    /\ dunder = 3
    /\ kkey = <<"A", "_", "_", "_", "_", "B">>
    /\ kres = <<"A", "_", "B">>
    /\ processKey(kres, dunder) = <<"A", "B">>

----------------------------------------------------------------------------
(* Claims about glob matching *)

\* C14: dunder compression preserves matching: for every key K, every glob
\* pattern P and every dunder count n, if P matches the uppercased K then
\* the normalized P matches the normalized K.
C14_DunderPreservesMatching ==
    (kpc = "MatchNormalized" /\ Match(kpat, ToUpper(kkey))) => kres

HasPrefix(s, pre) == Len(pre) <= Len(s) /\ SubSeq(s, 1, Len(pre)) = pre

\* C16: in a pattern, * matches any sequence of zero or more characters of
\* the key, whatever they are: the pattern * matches every key, and P*
\* matches every key that starts with the literal P (here P of letters and
\* underscores).
C16_StarMatchesAnything ==
    (/\ kpc = "Match"
     /\ kpat # <<>>
     /\ kpat[Len(kpat)] = "*"
     /\ \A i \in 1..(Len(kpat) - 1) : kpat[i] \in {"A", "_"}
     /\ HasPrefix(kkey, SubSeq(kpat, 1, Len(kpat) - 1)))
        => kres

\* C17: every pattern character other than * and ? matches only itself: a
\* pattern without * and ? matches a key exactly when the key equals the
\* pattern, brackets and backslashes included.
C17_LiteralCharacters ==
    (kpc = "Match" /\ ~Contains(kpat, "*") /\ ~Contains(kpat, "?"))
        => (kres <=> kkey = kpat)

----------------------------------------------------------------------------
(* Claims about the pattern filter *)

MatchesAny(patterns, key) == \E i \in 1..Len(patterns) : Match(patterns[i], key)

\* The include list is empty or the key matches one of its patterns, and
\* the key matches no exclude pattern.
PassesFilter(f, key) ==
    (Len(f.include) = 0 \/ MatchesAny(f.include, key)) /\ ~MatchesAny(f.exclude, key)

\* C15: shouldInclude(key) is true exactly when (the include list is empty
\* or the key matches at least one include pattern) and the key matches no
\* exclude pattern; a key that matches an exclude pattern is rejected
\* whatever the include list is.
C15_IncludeThenExclude ==
    kpc = "shouldInclude" =>
        /\ kres = PassesFilter(filter, kkey)
        /\ MatchesAny(filter.exclude, kkey) => ~kres

\* A key that matches an include pattern and an exclude pattern has been
\* rejected.
C15_Witness ==
    /\ kpc = "shouldInclude"
    /\ Len(filter.include) > 0
    /\ MatchesAny(filter.include, kkey)
    /\ MatchesAny(filter.exclude, kkey)
    /\ kres = FALSE

AllBlank(patterns) == \A i \in 1..Len(patterns) : TrimSpace(patterns[i]) = <<>>

\* C19: after any sequence of SetFilterPatterns calls the filter is what the
\* last call alone makes it: nil exactly when both lists of that call are
\* empty once blank patterns are dropped, whatever filter was set before,
\* and otherwise the two normalized lists of that call.
C19_LastCallDecides ==
    /\ ~lastSet.called => filter = NoFilter
    /\ lastSet.called =>
        /\ filter.nil <=> (AllBlank(lastSet.include) /\ AllBlank(lastSet.exclude))
        /\ ~filter.nil =>
              /\ filter.include = normalizePatterns(lastSet.include, lastSet.dunder)
              /\ filter.exclude = normalizePatterns(lastSet.exclude, lastSet.dunder)

\* A call with blank patterns only has removed a filter that was set.
C19_Witness ==
    /\ lastSet.called
    /\ lastSet.hadFilter
    /\ lastSet.include = <<<<" ">>>>
    /\ lastSet.exclude = <<>>
    /\ filter = NoFilter

----------------------------------------------------------------------------
(* Claims about the registry *)

\* The positions in `registered` of the plugins that have f as their name
\* or as one of their extensions.
Handlers(f) ==
    {i \in 1..Len(registered) :
        registered[i].name = f
        \/ \E j \in 1..Len(registered[i].exts) : registered[i].exts[j] = f}

\* C20: after any sequence of Register calls, Get(f) for a non-empty f
\* returns the most recently registered plugin that has f as its name or
\* as one of its extensions, and returns an "unsupported format" error
\* exactly when no registered plugin has.
C20_LastRegisteredWins ==
    (rpc = "got" /\ gformat # "") =>
        IF Handlers(gformat) = {}
        THEN got.plugin = NoPlugin /\ got.err = <<"unsupported format: ", gformat>>
        ELSE /\ got.err = NoError
             /\ \E i \in Handlers(gformat) :
                   /\ \A j \in Handlers(gformat) : j <= i
                   /\ got.plugin = registered[i]

\* Get("yml") has returned the demo plugin, registered after the built-in
\* yaml plugin that has the same extension.
C20_Witness ==
    /\ rpc = "got"
    /\ gformat = "yml"
    /\ registered = <<YamlPlugin, JsonPlugin, SqlitePlugin, DemoPlugin>>
    /\ got = [plugin |-> DemoPlugin, err |-> NoError]

\* The positions in `registered` of the plugins that can handle yaml.
YamlCapable == {i \in 1..Len(registered) : CanHandle(registered[i], "yaml")}

\* C21: Get("") returns the first plugin, in registration order, that can
\* handle yaml, and an error when no such plugin has been registered, even
\* if other plugins are; once the default is set no later Register call
\* replaces it.
C21_DefaultIsFirstYaml ==
    /\ [](/\ IF YamlCapable = {} THEN defaultPlugin = NoPlugin
             ELSE \E i \in YamlCapable :
                     /\ \A j \in YamlCapable : i <= j
                     /\ defaultPlugin = registered[i]
          /\ (rpc = "got" /\ gformat = "") =>
                IF YamlCapable = {}
                THEN got = [plugin |-> NoPlugin,
                            err |-> <<"no default plugin available">>]
                ELSE got = [plugin |-> defaultPlugin, err |-> NoError])
    /\ [][defaultPlugin # NoPlugin => defaultPlugin' = defaultPlugin]_vars

\* Get("") has returned the built-in yaml plugin, registered after the json
\* plugin and before a second plugin named yaml.
C21_Witness ==
    /\ rpc = "got"
    /\ gformat = ""
    /\ registered = <<JsonPlugin, YamlPlugin, MockYamlPlugin>>
    /\ got = [plugin |-> YamlPlugin, err |-> NoError]

\* C28: after any sequence of Register calls, whenever Get("") and
\* Get("yaml") both succeed they return the same plugin instance.
C28_DefaultIsYaml ==
    rpc = "got" =>
        /\ (gformat = "yaml" /\ got.err = NoError /\ defaultPlugin # NoPlugin)
              => got.plugin = defaultPlugin
        /\ (gformat = "" /\ got.err = NoError /\ "yaml" \in DOMAIN registry)
              => got.plugin = registry["yaml"]

\* C23: Flatten raises no error on any Raw Value tree, a mapping with
\* non-string keys included: every call returns normally.
C23_FlattenNeverFails ==
    fpc \in {"flattened", "yaml", "json"} => fpanic = FALSE

\* The sum of f[i] for i in 1..n.
RECURSIVE SumTo(_, _)
SumTo(f, n) == IF n = 0 THEN 0 ELSE f[n] + SumTo(f, n - 1)

\* The number of leaves of a tree: its scalars and its empty mappings.
RECURSIVE LeafCount(_)
LeafCount(v) ==
    CASE v.t = "smap" ->
            IF DOMAIN v.m = {} THEN 1
            ELSE LET ord == Enum(DOMAIN v.m)
                 IN SumTo([i \in 1..Len(ord) |-> LeafCount(v.m[ord[i]])], Len(ord))
      [] v.t = "seq" ->
            SumTo([i \in 1..Len(v.e) |-> LeafCount(v.e[i])], Len(v.e))
      [] OTHER -> 1

\* A tree of string-keyed mappings, non-empty sequences and scalars of the
\* handled types, in which no mapping key contains an underscore and sibling
\* keys differ case-insensitively.
RECURSIVE DistinctPaths(_)
DistinctPaths(v) ==
    CASE v.t = "smap" ->
            /\ \A k \in DOMAIN v.m : ~Contains(k, "_") /\ DistinctPaths(v.m[k])
            /\ \A j, k \in DOMAIN v.m : ToUpper(j) = ToUpper(k) => j = k
      [] v.t = "seq" ->
            /\ v.e # <<>>
            /\ \A i \in 1..Len(v.e) : DistinctPaths(v.e[i])
      [] OTHER -> v.t \in {"string", "int", "float64", "float64e", "bool", "nil"}

\* C29: Flatten (the shared one, or the JSON plugin's own) started with an
\* empty prefix and an empty output, on a tree
\* whose mapping keys contain no underscore and whose sibling keys differ
\* case-insensitively, writes as many entries as the tree has leaves: no
\* leaf overwrites another, the keys under an empty-string key included.
C29_LeavesGetDistinctKeys ==
    (/\ fpc = "flattened" \/ (fpc \in {"yaml", "json"} /\ fnode # NilNode)
     /\ fprefix = <<>>
     /\ DistinctPaths(fnode))
      => /\ ~fpanic
         /\ Cardinality(DOMAIN fenv) = LeafCount(fnode)

\* A tree of string-keyed mappings, sequences and string, boolean, null and
\* integer-valued leaves.
RECURSIVE IntegerLeaves(_)
IntegerLeaves(v) ==
    CASE v.t = "smap" -> \A k \in DOMAIN v.m : IntegerLeaves(v.m[k])
      [] v.t = "seq" -> \A i \in 1..Len(v.e) : IntegerLeaves(v.e[i])
      [] v.t = "float64" -> v.fp = 0
      [] OTHER -> v.t \in {"string", "bool", "nil", "int", "float64e"}

\* The mappings the two flatten functions can produce from v.
UtilsResults(v) ==
    {ApplyWrites(NoMap, r.w) : r \in {q \in FlattenRuns(<<>>, v) : ~q.p}}
JsonResults(v) == {ApplyWrites(NoMap, r.w) : r \in JsonFlattenRuns(<<>>, v)}

\* C30: on every tree of string-keyed mappings, sequences and string,
\* boolean, null and integer-valued leaves, the JSON plugin's flatten and the
\* shared utils.Flatten produce the same mapping.
C30_JsonFlattenIsUtilsFlatten ==
    (fprefix = <<>> /\ fnode # NilNode /\ IntegerLeaves(fnode)) =>
        /\ fpc = "json" => fenv \in UtilsResults(fnode)
        /\ fpc \in {"yaml", "flattened"} => (~fpanic /\ fenv \in JsonResults(fnode))

\* The patterns of a list that are non-empty after trimming, in order.
NonBlank(patterns) == SelectSeq(patterns, LAMBDA p : TrimSpace(p) # <<>>)

\* What normalizePatterns returns for a list given to the last
\* SetFilterPatterns call, under the dunder count of that call.
Normalized(patterns) == normalizePatterns(patterns, lastSet.dunder)

\* The elements of the result are the normalized non-blank patterns.
ElementsNormalized(patterns) ==
    /\ Len(Normalized(patterns)) = Len(NonBlank(patterns))
    /\ \A i \in 1..Len(NonBlank(patterns)) :
          Normalized(patterns)[i] =
              processKey(ToUpper(TrimSpace(NonBlank(patterns)[i])), lastSet.dunder)

C27_NoEmptyPattern ==
    ~filter.nil =>
        /\ \A i \in 1..Len(filter.include) : filter.include[i] # <<>>
        /\ \A i \in 1..Len(filter.exclude) : filter.exclude[i] # <<>>

\* C26: whatever the order of the SetDunder and SetFilterPatterns calls
\* before Convert, the patterns the filter holds at Convert time are the user
\* patterns compressed with the dunder count that Convert applies to the
\* keys.
C26_PatternsUnderCurrentDunder ==
    (kpc = "Convert" /\ lastSet.called /\ ~filter.nil) =>
        /\ filter.include = normalizePatterns(lastSet.include, dunder)
        /\ filter.exclude = normalizePatterns(lastSet.exclude, dunder)

----------------------------------------------------------------------------
(* Claims about the parsers *)

\* A stream that is one JSON value with nothing but spaces around it.
WellFormedJson(s) ==
    LET v == readValue(s, 1, "beginValue", <<>>)
    IN /\ v.err = "none"
       /\ \A i \in (v.n + 1)..Len(s) : IsSpace(s[i])

\* C22: each built-in parser's Parse returns an empty mapping and no error
\* for empty input, and an error for input that is malformed anywhere in
\* the stream, not only in its leading part.
C22_ErrorOnMalformedStream ==
    /\ (ppc \in {"json", "sqlite"} /\ (stream.nil \/ stream.bytes = <<>>))
          => parsed = Parsed(NoMap)
    /\ (ppc = "json" /\ NonSpace(stream.bytes) /\ ~WellFormedJson(stream.bytes))
          => parsed.err # "none"
    /\ (ppc = "sqlite" /\ stream.bytes # <<>> /\ ~stream.db)
          => parsed.err # "none"

\* The rows whose key is the same as that of row i after uppercasing.
SameKey(rows, i) == {j \in 1..Len(rows) : ToUpper(rows[j].key) = ToUpper(rows[i].key)}

\* C25: the SQLite parser maps each row, in query order, to
\* uppercase(key) -> value: when several rows have keys that are equal after
\* uppercasing the mapping holds the value of the last such row, and Parse
\* returns no error for the duplicate.
C25_LastRowWins ==
    (/\ ppc = "sqlite"
     /\ stream.db
     /\ \A i \in 1..Len(stream.rows) : ~stream.rows[i].value.null)
      => /\ parsed.err = "none"
         /\ DOMAIN parsed.env = {ToUpper(stream.rows[i].key) : i \in 1..Len(stream.rows)}
         /\ \A i \in 1..Len(stream.rows) :
               (\A j \in SameKey(stream.rows, i) : j <= i)
                  => parsed.env[ToUpper(stream.rows[i].key)] = stream.rows[i].value.s

\* The query returned a=1 and then A=2, and Parse returned A -> 2.
C25_Witness ==
    /\ ppc = "sqlite"
    /\ stream.rows = <<Row(<<"a">>, Text(<<"1">>)), Row(<<"A">>, Text(<<"2">>))>>
    /\ parsed = Parsed(<<"A">> :> <<"2">>)

====
